---------------------------- MODULE Spec2Model ----------------------------
(***************************************************************************)
(* A model of PyInstaller/utils/hooks/qt.py: the Qt plugin-directory and   *)
(* qmake probes, the library-name normalisation and the transitive import  *)
(* walk of add_qt5_dependencies, and the assembly of the                   *)
(* (hiddenimports, binaries, datas) manifest.                              *)
(*                                                                         *)
(* Python strings that the code inspects character by character (library   *)
(* paths, file names, version strings) are sequences of one-character      *)
(* strings; strings the code only stores and compares (hidden-import       *)
(* names, plugin categories, translation bases, namespaces) are TLA+       *)
(* strings.                                                                *)
(***************************************************************************)
EXTENDS Integers, Sequences, FiniteSets, TLC

\* ------------------------------------------------------------------ bounds
\* Number of name parts concatenated into an input of the normalisation.
MaxParts == 4
\* Number of dot-separated version components after ".so".
MaxVersion == 3
\* Longest list of library paths reported by QCoreApplication.libraryPaths().
MaxPaths == 2

\* Python's None.
None == "None"

\* ----------------------------------------------------------------- strings
UpperChars == <<"A","B","C","D","E","F","G","H","I","J","K","L","M",
                "N","O","P","Q","R","S","T","U","V","W","X","Y","Z">>
LowerChars == <<"a","b","c","d","e","f","g","h","i","j","k","l","m",
                "n","o","p","q","r","s","t","u","v","w","x","y","z">>

\* str.lower() on one character (ASCII).
ToLower ==
    [c \in {UpperChars[i] : i \in 1..Len(UpperChars)} |->
        LowerChars[CHOOSE i \in 1..Len(UpperChars) : UpperChars[i] = c]]
LowerChar(c) == IF c \in DOMAIN ToLower THEN ToLower[c] ELSE c

\* str.lower()
Lower(s) == [i \in 1..Len(s) |-> LowerChar(s[i])]

\* str.startswith(p)
StartsWith(s, p) == Len(s) >= Len(p) /\ SubSeq(s, 1, Len(p)) = p

\* str.endswith(p)
EndsWith(s, p) == Len(s) >= Len(p) /\ SubSeq(s, Len(s) - Len(p) + 1, Len(s)) = p

\* s[n:]
DropFirst(s, n) == SubSeq(s, n + 1, Len(s))

\* str.rfind over a set of characters, as a 1-based index; 0 when absent
\* (Python: -1).
RFind(s, cs) ==
    LET hits == {i \in 1..Len(s) : s[i] \in cs}
    IN  IF hits = {} THEN 0 ELSE CHOOSE i \in hits : \A j \in hits : j <= i

\* str.find(c, from) over a set of characters, 1-based; 0 when absent.
FindFrom(s, cs, from) ==
    LET hits == {i \in from..Len(s) : s[i] \in cs}
    IN  IF hits = {} THEN 0 ELSE CHOOSE i \in hits : \A j \in hits : i <= j

\* str.find(sub) == 0, the test get_qmake_path applies to the version string.
FindIsZero(s, sub) == StartsWith(s, sub)

\* The concatenation of a sequence of strings.
RECURSIVE Concat(_)
Concat(parts) ==
    IF parts = << >> THEN << >> ELSE Head(parts) \o Concat(Tail(parts))

\* ------------------------------------------------------------ platforms
\* compat.is_linux / is_darwin / is_win: exactly one holds for a platform.
Platforms == {"linux", "darwin", "win"}

\* os.sep and os.altsep of the platform's os.path.
Seps(plat) == IF plat = "win" THEN {"\\", "/"} ELSE {"/"}

\* ntpath.splitdrive looks for the share of a UNC path after the two leading
\* separators, or after the extended prefix \\?\UNC\ (either separator, any
\* case) where the path begins with it.
UncStart(plat, p) ==
    IF /\ Len(p) >= 8
       /\ p[3] = "?"
       /\ p[4] \in Seps(plat)
       /\ Lower(SubSeq(p, 5, 7)) = <<"u","n","c">>
       /\ p[8] \in Seps(plat)
    THEN 9 ELSE 3

\* ntpath.splitdrive: the length of the drive part (a UNC share
\* "//host/share" or "//?/UNC/host/share", or a drive letter "c:");
\* posixpath has no drives.
DriveLen(plat, p) ==
    IF plat # "win" THEN 0
    ELSE IF Len(p) >= 2 /\ p[1] \in Seps(plat) /\ p[2] \in Seps(plat)
    THEN LET index == FindFrom(p, Seps(plat), UncStart(plat, p))
         IN  IF index = 0 THEN Len(p)
             ELSE LET index2 == FindFrom(p, Seps(plat), index + 1)
                  IN  IF index2 = 0 THEN Len(p) ELSE index2 - 1
    ELSE IF Len(p) >= 2 /\ p[2] = ":" THEN 2
    ELSE 0

\* os.path.basename: what follows the last separator (after the drive).
Basename(plat, p) ==
    LET rest == DropFirst(p, DriveLen(plat, p))
    IN  DropFirst(rest, RFind(rest, Seps(plat)))

\* os.path.splitext (genericpath._splitext): split at the last dot when it
\* follows the last separator and some character between that separator and
\* the dot is not a dot (leading dots start no extension).
SplitAt(plat, p) ==
    LET sepIndex == RFind(p, Seps(plat))
        dotIndex == RFind(p, {"."})
    IN  IF /\ dotIndex > sepIndex
           /\ \E k \in (sepIndex + 1)..(dotIndex - 1) : p[k] # "."
        THEN dotIndex ELSE Len(p) + 1

SplitextRoot(plat, p) == SubSeq(p, 1, SplitAt(plat, p) - 1)
SplitextExt(plat, p) == SubSeq(p, SplitAt(plat, p), Len(p))

\* ------------------------------------------------- library-name normalisation
\* add_qt5_dependencies, qt.py:398: basename, strip the extension, lowercase.
StripExtLower(plat, imp) ==
    CHOOSE name \in
        {Lower(root) :
            root \in {SplitextRoot(plat, base) :
                base \in {Basename(plat, path) : path \in {imp}}}} : TRUE

\* qt.py:400-401: on Linux a remaining ".so" is stripped as well.
StripSoMutant(plat, n) == n
StripSo(plat, n) ==
    IF plat = "linux" /\ SplitextExt(plat, n) = <<".","s","o">>
    THEN SplitextRoot(plat, n) ELSE n

\* qt.py:402-403: strip a leading "lib".
StripLib(n) == IF StartsWith(n, <<"l","i","b">>) THEN DropFirst(n, 3) ELSE n

\* qt.py:405-406 testing the prefix in the case the name has by then.
RenameQtMutant(plat, n) ==
    IF plat = "darwin" /\ StartsWith(n, <<"q","t">>)
    THEN <<"q","t","5">> \o DropFirst(n, 2) ELSE n
\* qt.py:405-406: on macOS rename a leading "Qt" to "Qt5". The test is made
\* on the lowercased name with the mixed-case prefix, as the code makes it.
RenameQt(plat, n) ==
    IF plat = "darwin" /\ StartsWith(n, <<"Q","t">>)
    THEN <<"Q","t","5">> \o DropFirst(n, 2) ELSE n

\* qt.py:398-406: the name looked up in _qt_dynamic_dependencies_dict.
\* Each assignment to lib_name is bound before the next one reads it.
NormalizeLibName(plat, imp) ==
    CHOOSE name \in
        {RenameQt(plat, unprefixed) :
            unprefixed \in {StripLib(stem) :
                stem \in {StripSo(plat, lowered) :
                    lowered \in {StripExtLower(plat, imp)}}}} : TRUE


\* ------------------------------------------------------- the static table
\* One entry of _qt_dynamic_dependencies_dict: the key and the tuple
\* (hiddenimports, translations_base, zero or more plugins...).
Row(key, hi, tb, pl) ==
    [key |-> key, hiddenimports |-> hi, translations_base |-> tb, plugins |-> pl]

\* qt.py:309-367, entry by entry.
qt_dynamic_dependencies_dict ==
    {
       \* qt5bluetooth (qt.py:311)
       Row(<<"q","t","5","b","l","u","e","t","o","o","t","h">>,
           "PyQt5.QtBluetooth", None, <<>>),
       \* qt5concurrent (qt.py:312)
       Row(<<"q","t","5","c","o","n","c","u","r","r","e","n","t">>,
           None, "qtbase", <<>>),
       \* qt5core (qt.py:313)
       Row(<<"q","t","5","c","o","r","e">>,
           "PyQt5.QtCore", "qtbase", <<>>),
       \* qtdbus (qt.py:315)
       Row(<<"q","t","d","b","u","s">>,
           "PyQt5.QtDBus", None, <<>>),
       \* qt5declarative (qt.py:316)
       Row(<<"q","t","5","d","e","c","l","a","r","a","t","i","v","e">>,
           None, "qtquick1", <<"qml1tooling">>),
       \* qt5designer (qt.py:317)
       Row(<<"q","t","5","d","e","s","i","g","n","e","r">>,
           "PyQt5.QtDesigner", None, <<>>),
       \* qt5designercomponents (qt.py:318)
       Row(<<"q","t","5","d","e","s","i","g","n","e","r","c","o","m","p","o","n","e","n","t","s">>,
           None, None, <<>>),
       \* enginio (qt.py:319)
       Row(<<"e","n","g","i","n","i","o">>,
           None, None, <<>>),
       \* qt5gamepad (qt.py:320)
       Row(<<"q","t","5","g","a","m","e","p","a","d">>,
           None, None, <<"gamepads">>),
       \* qt5gui (qt.py:322)
       Row(<<"q","t","5","g","u","i">>,
           "PyQt5.QtGui", "qtbase", <<"accessible", "iconengines", "imageformats", "platforms", "platforminputcontexts", "platformthemes">>),
       \* qt5help (qt.py:323)
       Row(<<"q","t","5","h","e","l","p">>,
           "PyQt5.QtHelp", "qt_help", <<>>),
       \* qt5macextras (qt.py:325)
       Row(<<"q","t","5","m","a","c","e","x","t","r","a","s">>,
           "PyQt5.QtMacExtras", None, <<>>),
       \* qt5multimedia (qt.py:326)
       Row(<<"q","t","5","m","u","l","t","i","m","e","d","i","a">>,
           "PyQt5.QtMultimedia", "qtmultimedia", <<"audio", "mediaservice", "playlistformats">>),
       \* qt5multimediawidgets (qt.py:327)
       Row(<<"q","t","5","m","u","l","t","i","m","e","d","i","a","w","i","d","g","e","t","s">>,
           "PyQt5.QtMultimediaWidgets", "qtmultimedia", <<>>),
       \* qt5multimediaquick_p (qt.py:328)
       Row(<<"q","t","5","m","u","l","t","i","m","e","d","i","a","q","u","i","c","k","_","p">>,
           None, "qtmultimedia", <<>>),
       \* qt5network (qt.py:329)
       Row(<<"q","t","5","n","e","t","w","o","r","k">>,
           "PyQt5.QtNetwork", "qtbase", <<"bearer">>),
       \* qt5nfc (qt.py:330)
       Row(<<"q","t","5","n","f","c">>,
           "PyQt5.QtNfc", None, <<>>),
       \* qt5opengl (qt.py:332)
       Row(<<"q","t","5","o","p","e","n","g","l">>,
           "PyQt5.QtOpenGL", None, <<"xcbglintegrations", "egldeviceintegrations">>),
       \* qt5positioning (qt.py:333)
       Row(<<"q","t","5","p","o","s","i","t","i","o","n","i","n","g">>,
           "PyQt5.QtPositioning", None, <<"position">>),
       \* qt5printsupport (qt.py:334)
       Row(<<"q","t","5","p","r","i","n","t","s","u","p","p","o","r","t">>,
           "PyQt5.QtPrintSupport", None, <<"printsupport">>),
       \* qt5qml (qt.py:335)
       Row(<<"q","t","5","q","m","l">>,
           "PyQt5.QtQml", "qtdeclarative", <<>>),
       \* qmltooling (qt.py:336)
       Row(<<"q","m","l","t","o","o","l","i","n","g">>,
           None, None, <<"qmltooling">>),
       \* qt5quick (qt.py:337)
       Row(<<"q","t","5","q","u","i","c","k">>,
           "PyQt5.QtQuick", "qtdeclarative", <<"scenegraph", "qmltooling">>),
       \* qt5quickparticles (qt.py:338)
       Row(<<"q","t","5","q","u","i","c","k","p","a","r","t","i","c","l","e","s">>,
           None, None, <<>>),
       \* qt5quickwidgets (qt.py:339)
       Row(<<"q","t","5","q","u","i","c","k","w","i","d","g","e","t","s">>,
           "PyQt5.QtQuickWidgets", None, <<>>),
       \* qt5script (qt.py:340)
       Row(<<"q","t","5","s","c","r","i","p","t">>,
           None, "qtscript", <<>>),
       \* qt5scripttools (qt.py:341)
       Row(<<"q","t","5","s","c","r","i","p","t","t","o","o","l","s">>,
           None, "qtscript", <<>>),
       \* qt5sensors (qt.py:342)
       Row(<<"q","t","5","s","e","n","s","o","r","s">>,
           "PyQt5.QtSensors", None, <<"sensors", "sensorgestures">>),
       \* qt5serialport (qt.py:343)
       Row(<<"q","t","5","s","e","r","i","a","l","p","o","r","t">>,
           "PyQt5.QtSerialPort", "qtserialport", <<>>),
       \* qt5sql (qt.py:344)
       Row(<<"q","t","5","s","q","l">>,
           "PyQt5.QtSql", "qtbase", <<"sqldrivers">>),
       \* qt5svg (qt.py:345)
       Row(<<"q","t","5","s","v","g">>,
           "PyQt5.QtSvg", None, <<>>),
       \* qt5test (qt.py:346)
       Row(<<"q","t","5","t","e","s","t">>,
           "PyQt5.QtTest", "qtbase", <<>>),
       \* qt5webkit (qt.py:347)
       Row(<<"q","t","5","w","e","b","k","i","t">>,
           None, None, <<>>),
       \* qt5webkitwidgets (qt.py:348)
       Row(<<"q","t","5","w","e","b","k","i","t","w","i","d","g","e","t","s">>,
           None, None, <<>>),
       \* qt5websockets (qt.py:349)
       Row(<<"q","t","5","w","e","b","s","o","c","k","e","t","s">>,
           "PyQt5.QtWebSockets", None, <<>>),
       \* qt5widgets (qt.py:350)
       Row(<<"q","t","5","w","i","d","g","e","t","s">>,
           "PyQt5.QtWidgets", "qtbase", <<>>),
       \* qt5winextras (qt.py:351)
       Row(<<"q","t","5","w","i","n","e","x","t","r","a","s">>,
           "PyQt5.QtWinExtras", None, <<>>),
       \* qt5xml (qt.py:352)
       Row(<<"q","t","5","x","m","l">>,
           "PyQt5.QtXml", "qtbase", <<>>),
       \* qt5xmlpatterns (qt.py:353)
       Row(<<"q","t","5","x","m","l","p","a","t","t","e","r","n","s">>,
           "PyQt5.QXmlPatterns", "qtxmlpatterns", <<>>),
       \* qt5webenginecore (qt.py:355)
       Row(<<"q","t","5","w","e","b","e","n","g","i","n","e","c","o","r","e">>,
           "PyQt5.QtWebEngineCore", None, <<"qtwebengine", "xcbglintegrations", "egldeviceintegrations">>),
       \* qt5webengine (qt.py:356)
       Row(<<"q","t","5","w","e","b","e","n","g","i","n","e">>,
           "PyQt5.QtWebEngine", "qtwebengine", <<"qtwebengine">>),
       \* qt5webenginewidgets (qt.py:357)
       Row(<<"q","t","5","w","e","b","e","n","g","i","n","e","w","i","d","g","e","t","s">>,
           "PyQt5.QtWebEngineWidgets", None, <<"qtwebengine">>),
       \* qt53dcore (qt.py:358)
       Row(<<"q","t","5","3","d","c","o","r","e">>,
           None, None, <<>>),
       \* qt53drender (qt.py:359)
       Row(<<"q","t","5","3","d","r","e","n","d","e","r">>,
           None, None, <<"sceneparsers", "renderplugins", "geometryloaders">>),
       \* qt53dquick (qt.py:360)
       Row(<<"q","t","5","3","d","q","u","i","c","k">>,
           None, None, <<>>),
       \* qt53dquickRender (qt.py:361)
       Row(<<"q","t","5","3","d","q","u","i","c","k","R","e","n","d","e","r">>,
           None, None, <<>>),
       \* qt53dinput (qt.py:362)
       Row(<<"q","t","5","3","d","i","n","p","u","t">>,
           None, None, <<>>),
       \* qt5location (qt.py:363)
       Row(<<"q","t","5","l","o","c","a","t","i","o","n">>,
           "PyQt5.QtLocation", None, <<"geoservices">>),
       \* qt5webchannel (qt.py:364)
       Row(<<"q","t","5","w","e","b","c","h","a","n","n","e","l">>,
           "PyQt5.QtWebChannel", None, <<>>),
       \* qt5texttospeech (qt.py:365)
       Row(<<"q","t","5","t","e","x","t","t","o","s","p","e","e","c","h">>,
           None, None, <<"texttospeech">>),
       \* qt5serialbus (qt.py:366)
       Row(<<"q","t","5","s","e","r","i","a","l","b","u","s">>,
           None, None, <<"canbus">>)

    }

\* The one-entry table {"x": ("pkg.X", "base_x", "plugA")} of the walk's
\* worked example.
TestTable == { Row(<<"x">>, "pkg.X", "base_x", <<"plugA">>) }

\* ``lib_name in _qt_dynamic_dependencies_dict`` (qt.py:410)
Keys(t) == {r.key : r \in t}

\* ``_qt_dynamic_dependencies_dict[lib_name]`` (qt.py:415)
Lookup(t, k) == CHOOSE r \in t : r.key = k

\* The elements of a tuple of plugin names.
Range(s) == {s[i] : i \in 1..Len(s)}

\* ------------------------------------------------------------------ state
VARIABLES
    pc,                 \* position: "call", "walk", "normalize", "done"
    platform,           \* which of is_linux / is_darwin / is_win holds
    table,              \* _qt_dynamic_dependencies_dict
    getImports,         \* bindepend.getImports: library path -> names it imports
    getfullnameof,      \* bindepend.getfullnameof (Windows): name -> path or ''
    module_imports,     \* getImports(module), the walk's starting work-set
    imports,            \* the work-set of the ``while imports:`` loop
    imp,                \* the library last popped (after getfullnameof)
    lib_name,           \* its normalised name
    hiddenimports,      \* accumulated hidden-import names
    translations_base,  \* accumulated translation bases
    plugins,            \* accumulated plugin categories
    expanded,           \* history: the paths getImports was called on in the loop
    namespace,          \* argument of qt_plugins_dir / qt_plugins_binaries
    plugin_type,        \* argument of qt_plugins_binaries
    libraryPaths,       \* what QCoreApplication.libraryPaths() reports
    isdir,              \* the paths for which os.path.isdir holds
    dir_files,          \* the library files of each existing plugin subdirectory
    environ,            \* os.environ: the variables that are set
    version,            \* argument of get_qmake_path
    homebrew,           \* get_homebrew_path: formula -> prefix or None
    qmake_query,        \* outcome of ``<dir>/bin/qmake -query QT_VERSION``
    libraries_path,     \* what QLibraryInfo.location(LibrariesPath) prints
    exec_prefix,        \* sys.exec_prefix
    exists,             \* the qt_menu.nib paths for which os.path.exists holds
    pyqt5_qml_isdir,    \* os.path.isdir of <PyQt5.__path__[0]>/Qt/qml
    qml_query,          \* outcome of ``qmake -query QT_INSTALL_QML``
    qml_exists,         \* os.path.exists of the directory that query names
    probed,             \* history: the external probes made, in order
    result              \* what the called function returned or raised

vars == <<pc, platform, table, getImports, getfullnameof, module_imports,
          imports, imp, lib_name, hiddenimports, translations_base, plugins,
          expanded, namespace, plugin_type, libraryPaths, isdir, dir_files,
          environ, version, homebrew, qmake_query, libraries_path,
          exec_prefix, exists, pyqt5_qml_isdir, qml_query, qml_exists, probed,
          result>>

walkVars == <<table, getImports, getfullnameof, module_imports, imports, imp,
              lib_name, hiddenimports, translations_base, plugins, expanded>>
fsVars == <<namespace, plugin_type, libraryPaths, isdir, dir_files>>
qmakeVars == <<environ, version, homebrew, qmake_query>>
locVars == <<libraries_path, exec_prefix, exists, pyqt5_qml_isdir, qml_query,
             qml_exists>>

\* A function's outcome: a returned value or a raised exception.
Return(v) == [kind |-> "return", value |-> v]
Raise(e) == [kind |-> "raise", value |-> e]
NoResult == [kind |-> "none", value |-> None]

\* Neither qt_menu_nib_dir nor qt5_qml_dir is under way.
LocIdle ==
    /\ libraries_path = << >>
    /\ exec_prefix = << >>
    /\ exists = {}
    /\ pyqt5_qml_isdir = FALSE
    /\ qml_query = << >>
    /\ qml_exists = FALSE

\* The lists that enumerate a finite set (``list(s)``, ``for x in s``): each
\* element once, in an order that the hash seed of the process decides.
Enumerations(s) ==
    {q \in [1..Cardinality(s) -> s] :
        \A i, j \in 1..Cardinality(s) : q[i] = q[j] => i = j}

\* ------------------------------------------------------------ qt_plugins_dir
SupportedNamespaces == {"PyQt4", "PyQt5", "PySide", "PySide2"}

\* qt.py:42-46: the reported paths that are directories, in reported order.
ValidPaths(paths, dirs) == SelectSeq(paths, LAMBDA p : p \in dirs)

\* qt.py:47-52 with the emptiness check left out.
CheckedPathsMutant(ns, valid) == Return(valid)
\* qt.py:47-52: raise when no reported path is a directory.
CheckedPaths(ns, valid) ==
    IF valid = << >> THEN Raise("Cannot find existing plugin directories")
    ELSE Return(valid)

\* qt.py:21-52
qt_plugins_dir(ns, paths, dirs) ==
    IF ns \notin SupportedNamespaces THEN Raise("Invalid namespace")
    ELSE IF paths = << >> THEN Raise("Cannot find plugin directories")
    ELSE CheckedPaths(ns, ValidPaths(paths, dirs))

\* The probes qt_plugins_dir makes: the libraryPaths query runs only after
\* the namespace check (qt.py:29-31).
PluginsDirProbes(ns) ==
    IF ns \in SupportedNamespaces THEN <<"libraryPaths">> ELSE << >>

\* ------------------------------------------------------- qt_plugins_binaries
\* misc.dlls_in_dir(os.path.join(path, plugin_type)): the library files of
\* the subdirectory, none when the subdirectory does not exist.
dlls_in_dir(files, path, ptype) ==
    IF <<path, ptype>> \in DOMAIN files
    THEN [i \in 1..Len(files[<<path, ptype>>]) |->
            [dir |-> path, sub |-> ptype, name |-> files[<<path, ptype>>][i]]]
    ELSE << >>

\* qt.py:67-69: the files of every plugin directory, in order.
RECURSIVE CollectFiles(_, _, _)
CollectFiles(files, pdir, ptype) ==
    IF pdir = << >> THEN << >>
    ELSE dlls_in_dir(files, Head(pdir), ptype)
            \o CollectFiles(files, Tail(pdir), ptype)

\* ``f.endswith(suffix)`` for a file path: the path ends in a separator and
\* the file name, and no suffix tested holds a separator.
PathEndsWith(f, suffix) == EndsWith(<<"/">> \o f.name, suffix)

\* qt.py:81-84 with the platform test left out.
DebugSuffixMutant(plat, ns) ==
    IF ns \in {"PyQt4", "PySide"} THEN <<"d","4",".","d","l","l">>
    ELSE IF ns \in {"PyQt5", "PySide2"} THEN <<"d",".","d","l","l">>
    ELSE << >>
\* qt.py:81-84: the suffix of the debug copies that are filtered out; the
\* empty suffix stands for "no filter".
DebugSuffix(plat, ns) ==
    IF plat = "win" /\ ns \in {"PyQt4", "PySide"} THEN <<"d","4",".","d","l","l">>
    ELSE IF plat = "win" /\ ns \in {"PyQt5", "PySide2"} THEN <<"d",".","d","l","l">>
    ELSE << >>

FilterDebug(plat, ns, fs) ==
    IF DebugSuffix(plat, ns) = << >> THEN fs
    ELSE SelectSeq(fs, LAMBDA f : ~PathEndsWith(f, DebugSuffix(plat, ns)))

\* qt.py:87-93: the destination directory, os.path.join(plugin_dir, plugin_type).
PluginDestDir(ns, ptype) ==
    IF ns \in {"PyQt4", "PySide"} THEN <<"qt4_plugins", ptype>>
    ELSE IF ns = "PyQt5" THEN <<"PyQt5", "Qt", "plugins", ptype>>
    ELSE <<"qt5_plugins", ptype>>

\* qt.py:94-97 raising when no file was found.
PairFilesMutant(fs, dest) ==
    IF fs = << >> THEN Raise("no plugin files")
    ELSE Return([i \in 1..Len(fs) |-> <<fs[i], dest>>])
\* qt.py:94-97: ``[(f, dest_dir) for f in files]``
PairFiles(fs, dest) == Return([i \in 1..Len(fs) |-> <<fs[i], dest>>])

\* qt.py:55-97
qt_plugins_binaries(plat, ptype, ns, paths, dirs, files) ==
    IF ns \notin SupportedNamespaces THEN Raise("Invalid namespace")
    ELSE LET pdir == qt_plugins_dir(ns, paths, dirs)
         IN  IF pdir.kind = "raise" THEN pdir
             ELSE PairFiles(FilterDebug(plat, ns,
                                CollectFiles(files, pdir.value, ptype)),
                            PluginDestDir(ns, ptype))

\* --------------------------------------------------- the walk's environment
\* Library files of a Linux Qt5 installation.
LinuxLibs ==
    { \* /usr/lib/libQt5Core.so.5
      <<"/","u","s","r","/","l","i","b","/","l","i","b","Q","t","5","C","o","r","e",".","s","o",".","5">>,
      \* /usr/lib/libQt5Network.so.5
      <<"/","u","s","r","/","l","i","b","/","l","i","b","Q","t","5","N","e","t","w","o","r","k",".","s","o",".","5">>,
      \* /usr/lib/libQt5Sql.so.5
      <<"/","u","s","r","/","l","i","b","/","l","i","b","Q","t","5","S","q","l",".","s","o",".","5">> }

\* /opt/libx.so.1 and /opt/liby.so.1, the libraries of the worked example.
LibX == <<"/","o","p","t","/","l","i","b","x",".","s","o",".","1">>
LibY == <<"/","o","p","t","/","l","i","b","y",".","s","o",".","1">>

\* Import names as the Windows import tables give them.
WinLibs ==
    { <<"Q","t","5","C","o","n","c","u","r","r","e","n","t",".","d","l","l">>,
      <<"Q","t","5","N","e","t","w","o","r","k",".","d","l","l">>,
      <<"K","E","R","N","E","L","3","2",".","d","l","l">> }

\* c:\qt\bin\, the directory getfullnameof finds them in.
WinDir == <<"c",":","\\","q","t","\\","b","i","n","\\">>

\* Library files of a macOS Qt5 installation and a system library.
DarwinLibs ==
    { \* /qt/QtCore.framework/QtCore
      <<"/","q","t","/","Q","t","C","o","r","e",".","f","r","a","m","e","w","o","r","k","/","Q","t","C","o","r","e">>,
      \* /usr/local/lib/libQt5Network.dylib
      <<"/","u","s","r","/","l","o","c","a","l","/","l","i","b","/","l","i","b","Q","t","5","N","e","t","w","o","r","k",".","d","y","l","i","b">>,
      \* /usr/lib/libSystem.B.dylib
      <<"/","u","s","r","/","l","i","b","/","l","i","b","S","y","s","t","e","m",".","B",".","d","y","l","i","b">> }

\* bindepend.getfullnameof: the full path of a name that is found, '' otherwise.
FoundAt(n) == WinDir \o n
\* The path of the library file an import name stands for.
LibPath(plat, n) == IF plat = "win" THEN FoundAt(n) ELSE n

\* The platforms, tables and library files the walk is run on.
Configs ==
    { [platform |-> "linux", table |-> qt_dynamic_dependencies_dict, libs |-> LinuxLibs],
      [platform |-> "linux", table |-> TestTable, libs |-> {LibX, LibY}],
      [platform |-> "win", table |-> qt_dynamic_dependencies_dict, libs |-> WinLibs],
      [platform |-> "darwin", table |-> qt_dynamic_dependencies_dict, libs |-> DarwinLibs] }

\* Every path the loop can pop: a library file, or getfullnameof's ''.
LibPaths ==
    {<< >>} \cup UNION {{LibPath(c.platform, n) : n \in c.libs} : c \in Configs}

\* What getImports can report: any set of the libraries.
Reported(libs) == SUBSET libs

FullNames(plat, libs) ==
    IF plat = "win"
    THEN {f \in [libs -> {<< >>} \cup {FoundAt(n) : n \in libs}] :
            /\ \A n \in libs : f[n] \in {<< >>, FoundAt(n)}
            /\ Cardinality({n \in libs : f[n] = << >>}) <= 1}
    ELSE {[n \in libs |-> n]}


\* ------------------------------------------------------ add_qt5_dependencies
\* qt.py:394-395: on Windows the popped name is resolved to a full path.
Full(plat, gfn, i) == IF plat = "win" THEN gfn[i] ELSE i

\* getImports(imp): the names the library at this path imports; a path that
\* is no library file (getfullnameof's '') imports nothing.
ImportsOf(gi, full) == IF full \in DOMAIN gi THEN gi[full] ELSE {}

\* qt.py:413 without following a table library's own imports.
FollowImportsMutant(imps, more) == imps
\* qt.py:413: ``imports.update(getImports(imp))``
FollowImports(imps, more) == imps \cup more

\* qt.py:417-418 without the test for an absent hidden import.
AddHiddenImportsMutant(hi, row) == hi \cup {row.hiddenimports}
\* qt.py:417-418
AddHiddenImports(hi, row) ==
    IF row.hiddenimports # None THEN hi \cup {row.hiddenimports} ELSE hi

\* qt.py:419
AddPlugins(pl, row) == pl \cup Range(row.plugins)

\* qt.py:420-421
AddTranslationsBase(tb, row) ==
    IF row.translations_base # None THEN tb \cup {row.translations_base} ELSE tb

\* qt.py:410: ``if lib_name in _qt_dynamic_dependencies_dict``
Follows(t, name) == name \in Keys(t)

\* qt.py:410-413 with the update hoisted above the table test.
NextImportsMutant(t, name, rest, more) == FollowImports(rest, more)
\* qt.py:410-413: the work-set after the popped library was handled.
NextImports(t, name, rest, more) ==
    IF Follows(t, name) THEN FollowImports(rest, more) ELSE rest

\* One iteration of the ``while imports:`` loop (qt.py:390-421), popping i.
Pop(i) ==
    /\ pc = "walk"
    /\ i \in imports
    /\ LET full == Full(platform, getfullnameof, i)
           name == NormalizeLibName(platform, full)
           rest == imports \ {i}
       IN  /\ imp' = full
           /\ lib_name' = name
           /\ imports' = NextImports(table, name, rest, ImportsOf(getImports, full))
           /\ IF Follows(table, name)
              THEN LET row == Lookup(table, name)
                   IN  /\ expanded' = expanded \cup {full}
                       /\ hiddenimports' = AddHiddenImports(hiddenimports, row)
                       /\ plugins' = AddPlugins(plugins, row)
                       /\ translations_base' =
                              AddTranslationsBase(translations_base, row)
              ELSE UNCHANGED <<expanded, hiddenimports, plugins,
                               translations_base>>
    /\ UNCHANGED <<pc, platform, table, getImports, getfullnameof,
                   module_imports, fsVars, qmakeVars, locVars, probed,
                   result>>

\* qt.py:424-427: the binaries of the accumulated plugin categories, taken in
\* the order the loop meets them, and the libraryPaths queries made on the
\* way (one per call of qt_plugins_binaries); a raise of qt_plugins_binaries
\* ends the function there.
RECURSIVE PluginBinaries(_, _, _, _, _)
PluginBinaries(plat, pls, paths, dirs, files) ==
    IF pls = << >> THEN [result |-> Return(<< >>), probed |-> << >>]
    ELSE LET more == qt_plugins_binaries(plat, Head(pls), "PyQt5", paths,
                                         dirs, files)
             query == PluginsDirProbes("PyQt5")
         IN  IF more.kind = "raise" THEN [result |-> more, probed |-> query]
             ELSE LET tail == PluginBinaries(plat, Tail(pls), paths, dirs, files)
                  IN  [result |-> IF tail.result.kind = "raise" THEN tail.result
                                  ELSE Return(more.value \o tail.result.value),
                       probed |-> query \o tail.probed]

\* What QLibraryInfo.location(QLibraryInfo.TranslationsPath) prints.
translations_path == "/qt/translations"

\* qt.py:434: one glob entry per translation base.
Datas(tbs) ==
    [i \in 1..Len(tbs) |->
        << <<translations_path, <<tbs[i], "_*.qm">> >>,
           <<"PyQt5", "Qt", "translations">> >>]

\* qt.py:423-442: the returned triple, for the orders in which the three
\* sets are enumerated, and the libraryPaths queries made.
Triple(plat, hi, pl, tb, paths, dirs, files) ==
    LET binaries == PluginBinaries(plat, pl, paths, dirs, files)
    IN  [result |-> IF binaries.result.kind = "raise" THEN binaries.result
                    ELSE Return([hiddenimports |-> hi,
                                 binaries |-> binaries.result.value,
                                 datas |-> Datas(tb)]),
         probed |-> binaries.probed]

\* The end of add_qt5_dependencies once the work-set is empty (qt.py:423-442).
Assemble ==
    /\ pc = "walk"
    /\ imports = {}
    /\ \E hi \in Enumerations(hiddenimports), pl \in Enumerations(plugins),
          tb \in Enumerations(translations_base) :
          LET out == Triple(platform, hi, pl, tb, libraryPaths, isdir, dir_files)
          IN  /\ result' = out.result
              /\ probed' = probed \o out.probed
    /\ pc' = "done"
    /\ UNCHANGED <<platform, walkVars, fsVars, qmakeVars, locVars>>
\* The plugin directory and files the walk's manifest is assembled from.
QtPlugins == "/qt/plugins"
AltPlugins == "/alt/plugins"
GonePlugins == "/gone/plugins"
PluginDirs == {QtPlugins, AltPlugins, GonePlugins}
PluginTypes == {"bearer", "sqldrivers"}
FileA == <<"a",".","d","l","l">>               \* a.dll
FileAd == <<"a","d",".","d","l","l">>          \* ad.dll
FileAd4 == <<"a","d","4",".","d","l","l">>     \* ad4.dll
FileD == <<"d",".","d","l","l">>               \* d.dll
FileSo == <<"l","i","b","q","a",".","s","o">>  \* libqa.so

\* The library files of a plugin subdirectory, where it exists.
FilesOf(dir, ptype) ==
    IF dir = QtPlugins /\ ptype = "bearer" THEN <<FileA, FileAd>>
    ELSE IF dir = QtPlugins THEN <<FileAd4, FileSo>>
    ELSE IF ptype = "bearer" THEN <<FileD, FileAd4, FileA>>
    ELSE <<FileSo, FileAd>>

\* No qmake lookup is under way.
QmakeIdle ==
    /\ environ = {}
    /\ version = << >>
    /\ homebrew = << >>
    /\ qmake_query = << >>

\* The state when add_qt5_dependencies enters its loop (qt.py:373-389).
InitWalk ==
    /\ pc = "walk"
    /\ \E cfg \in Configs :
        /\ platform = cfg.platform
        /\ table = cfg.table
        /\ getfullnameof \in FullNames(cfg.platform, cfg.libs)
        /\ getImports \in
              {g \in [{LibPath(cfg.platform, n) : n \in cfg.libs}
                        -> Reported(cfg.libs)] :
                  \A n \in cfg.libs : n \notin g[LibPath(cfg.platform, n)]}
        /\ module_imports \in Reported(cfg.libs)
    /\ imports = module_imports
    /\ imp = << >>
    /\ lib_name = << >>
    /\ hiddenimports = {}
    /\ translations_base = {}
    /\ plugins = {}
    /\ expanded = {}
    /\ namespace = "PyQt5"
    /\ plugin_type = None
    /\ libraryPaths = <<QtPlugins>>
    /\ isdir = {QtPlugins}
    /\ dir_files = [d \in {<<QtPlugins, "bearer">>} |-> FilesOf(d[1], d[2])]
    /\ QmakeIdle
    /\ LocIdle
    /\ probed = << >>
    /\ result = NoResult

NextWalk == (\E i \in imports : Pop(i)) \/ Assemble

Spec == InitWalk /\ [][NextWalk]_vars

\* ------------------------------------------- the normalisation on its own
\* The parts names are put together from.
NameParts ==
    { <<"l","i","b">>, <<".","s","o">>, <<".">>, <<"x">>, <<"Q","t">>,
      <<"/">>, <<":">>, <<"5">> }

\* The names made of at most k parts.
RECURSIVE Composed(_)
Composed(k) ==
    IF k = 0 THEN {<< >>}
    ELSE LET shorter == Composed(k - 1)
         IN  shorter \cup {s \o p : s \in shorter, p \in NameParts}

\* lib<stem>.so followed by k version components, in a directory.
SoDirs == { << >>, <<"/","o","p","t","/">> }
SoStems == { <<"x">>, <<"Q","t","5","C","o","r","e">>, <<"l","i","b","x">>,
             <<"a",".","b">>,
             <<"Q","t","5","3","D","Q","u","i","c","k","R","e","n","d","e","r">> }
VersionDigits == <<"5","9","1","0","2","7">>
RECURSIVE VersionSuffix(_)
VersionSuffix(k) ==
    IF k = 0 THEN << >>
    ELSE VersionSuffix(k - 1) \o <<".", VersionDigits[((k - 1) % 6) + 1]>>
SoFile(dir, stem, k) ==
    dir \o <<"l","i","b">> \o stem \o <<".","s","o">> \o VersionSuffix(k)
SoFiles == {SoFile(d, s, k) : d \in SoDirs, s \in SoStems, k \in 0..MaxVersion}

\* Libraries named through the extended UNC prefix of Windows.
ExtendedUncPaths ==
    { <<"/","/","?","/","U","N","C","/","h","/","s">>,
      <<"\\","\\","?","\\","U","N","C","\\","h","\\","s","\\","Q","t","5","C","o","r","e",".","d","l","l">>,
      <<"/","/","?","/","u","n","c","/","h","/","s","/","l","i","b","x",".","s","o">>,
      <<"/","/","?","/","U","N","C","/">> }

\* The names given to the normalisation.
Names == Composed(MaxParts) \cup SoFiles \cup LibPaths \cup ExtendedUncPaths

\* Nothing of the walk, the plugin probes or the qmake lookup is under way.
WalkIdle ==
    /\ table = qt_dynamic_dependencies_dict
    /\ getImports = << >>
    /\ getfullnameof = << >>
    /\ module_imports = {}
    /\ imports = {}
    /\ hiddenimports = {}
    /\ translations_base = {}
    /\ plugins = {}
    /\ expanded = {}
FsIdle ==
    /\ namespace = "PyQt5"
    /\ plugin_type = None
    /\ libraryPaths = << >>
    /\ isdir = {}
    /\ dir_files = << >>

\* A popped library about to be normalised (qt.py:397).
InitNorm ==
    /\ pc = "normalize"
    /\ platform \in Platforms
    /\ imp \in Names
    /\ lib_name = << >>
    /\ WalkIdle
    /\ FsIdle
    /\ QmakeIdle
    /\ LocIdle
    /\ probed = << >>
    /\ result = NoResult

\* qt.py:398-406
Normalize ==
    /\ pc = "normalize"
    /\ lib_name' = NormalizeLibName(platform, imp)
    /\ pc' = "normalized"
    /\ UNCHANGED <<platform, table, getImports, getfullnameof, module_imports,
                   imports, imp, hiddenimports, translations_base, plugins,
                   expanded, fsVars, qmakeVars, locVars, probed,
                   result>>

NextNorm == Normalize

SpecNorm == InitNorm /\ [][NextNorm]_vars

\* ------------------------------------------------ the plugin probes alone
\* The lists of distinct paths of at most k elements.
RECURSIVE PathLists(_)
PathLists(k) ==
    IF k = 0 THEN {<< >>}
    ELSE LET shorter == PathLists(k - 1)
         IN  shorter \cup
             UNION {{Append(s, d) : d \in PluginDirs \ Range(s)} : s \in shorter}

\* What the toolkit and the file system can present: the reported library
\* paths, which of them are directories, and which plugin subdirectories
\* those hold.
FileSystem ==
    /\ libraryPaths \in PathLists(MaxPaths)
    /\ isdir \in SUBSET {QtPlugins, AltPlugins}
    /\ \E subdirs \in SUBSET (isdir \X PluginTypes) :
           dir_files = [s \in subdirs |-> FilesOf(s[1], s[2])]

\* A call of qt_plugins_dir or qt_plugins_binaries, or add_qt5_dependencies
\* entering its loop for a module whose libraries import nothing further.
InitManifest ==
    /\ platform \in Platforms
    /\ FileSystem
    /\ \/ /\ pc = "call"
          /\ namespace \in SupportedNamespaces \cup {"PyQt6"}
          /\ plugin_type \in PluginTypes
          /\ WalkIdle
          /\ imp = << >>
          /\ lib_name = << >>
       \/ /\ pc = "walk"
          /\ namespace = "PyQt5"
          /\ plugin_type = None
          /\ \E cfg \in Configs :
              /\ platform = cfg.platform
              /\ table = cfg.table
              /\ getfullnameof = [n \in cfg.libs |-> LibPath(cfg.platform, n)]
              /\ getImports = [p \in {LibPath(cfg.platform, n) : n \in cfg.libs} |-> {}]
              /\ module_imports \in {s \in SUBSET cfg.libs : Cardinality(s) <= 2}
          /\ imports = module_imports
          /\ imp = << >>
          /\ lib_name = << >>
          /\ hiddenimports = {}
          /\ translations_base = {}
          /\ plugins = {}
          /\ expanded = {}
    /\ QmakeIdle
    /\ LocIdle
    /\ probed = << >>
    /\ result = NoResult

\* A call of qt_plugins_dir(namespace) (qt.py:21-52).
CallQtPluginsDir ==
    /\ pc = "call"
    /\ result' = qt_plugins_dir(namespace, libraryPaths, isdir)
    /\ probed' = probed \o PluginsDirProbes(namespace)
    /\ pc' = "dir_returned"
    /\ UNCHANGED <<platform, walkVars, fsVars, qmakeVars, locVars>>

\* A call of qt_plugins_binaries(plugin_type, namespace) (qt.py:55-97).
CallQtPluginsBinaries ==
    /\ pc = "call"
    /\ result' = qt_plugins_binaries(platform, plugin_type, namespace,
                                     libraryPaths, isdir, dir_files)
    /\ probed' = probed \o PluginsDirProbes(namespace)
    /\ pc' = "binaries_returned"
    /\ UNCHANGED <<platform, walkVars, fsVars, qmakeVars, locVars>>

NextManifest ==
    \/ CallQtPluginsDir
    \/ CallQtPluginsBinaries
    \/ \E i \in imports : Pop(i)
    \/ Assemble

SpecManifest == InitManifest /\ [][NextManifest]_vars

\* ------------------------------------------------------------ get_qmake_path
\* The values of $QT5DIR and $QT4DIR where they are set.
\* $QT5DIR is written with a trailing separator, $QT4DIR without one.
EnvValue(name) ==
    IF name = "QT5DIR" THEN <<"/","o","p","t","/","q","t","5","/">>  \* /opt/qt5/
    ELSE <<"/","o","p","t","/","q","t","4">>                      \* /opt/qt4

\* None where the code's value is otherwise a string: strings are sequences
\* of characters here, and None is the sequence holding None alone, which is
\* no string.
NoPath == <<None>>

\* os.path.join(a, b) for a relative b without a drive: b follows a directly
\* when a is empty, ends in a separator or (ntpath) is a bare drive letter;
\* otherwise a separator stands between them.
SepChar(plat) == IF plat = "win" THEN "\\" ELSE "/"
Join(plat, a, b) ==
    LET drive == DriveLen(plat, a)
        path == DropFirst(a, drive)
    IN  IF path # << >>
        THEN IF path[Len(path)] \in Seps(plat) THEN a \o b
             ELSE a \o <<SepChar(plat)>> \o b
        ELSE IF drive > 0 /\ a[drive] # ":" THEN a \o <<SepChar(plat)>> \o b
        ELSE a \o b

\* qt.py:163: os.path.join(directory, 'bin', 'qmake')
QmakePath(plat, directory) ==
    Join(plat, Join(plat, directory, <<"b","i","n">>), <<"q","m","a","k","e">>)

\* The ways ``subprocess.check_output`` fails (qt.py:173), and what a query
\* comes to: the exception raised or the bytes printed.
SubprocessErrors == {"OSError", "CalledProcessError"}
Failed(error) == [error |-> error, output |-> << >>]
Printed(output) == [error |-> None, output |-> output]

\* bytes.strip(): leading and trailing ASCII whitespace removed (space, tab,
\* line feed, vertical tab, form feed, carriage return).
Whitespace == {" ", "\t", "\n", "", "\f", "\r"}
RECURSIVE StripChars(_, _)
StripChars(s, chars) ==
    IF s # << >> /\ Head(s) \in chars THEN StripChars(Tail(s), chars)
    ELSE IF s # << >> /\ s[Len(s)] \in chars
    THEN StripChars(SubSeq(s, 1, Len(s) - 1), chars)
    ELSE s
Strip(s) == StripChars(s, Whitespace)

\* qt.py:164-173 accepting any qmake that runs.
AcceptsMutant(out, ver) == out.error = None
\* qt.py:164-173: the query succeeded and the stripped output starts with
\* the requested version.
Accepts(out, ver) ==
    out.error = None /\ FindIsZero(Strip(out.output), ver)

\* qt.py:153-159: the default entry, then the Homebrew prefixes that exist.
CandidateDirs(brew) ==
    << << >> >> \o SelectSeq(<<brew["qt"], brew["qt5"]>>,
                            LAMBDA p : p # NoPath /\ p # << >>)

\* qt.py:161-176 without the except clause: a failed query ends the call.
RECURSIVE TryDirsMutant(_, _, _, _)
TryDirsMutant(plat, dirs, ver, query) ==
    IF dirs = << >> THEN [result |-> Return(NoPath), probed |-> << >>]
    ELSE LET qmake == QmakePath(plat, Head(dirs))
         IN  IF query[qmake].error # None
             THEN [result |-> Raise(query[qmake].error), probed |-> <<qmake>>]
             ELSE IF Accepts(query[qmake], ver)
             THEN [result |-> Return(qmake), probed |-> <<qmake>>]
             ELSE LET later == TryDirsMutant(plat, Tail(dirs), ver, query)
                  IN  [result |-> later.result,
                       probed |-> <<qmake>> \o later.probed]
\* qt.py:161-176: the loop over the candidate directories; a failed query
\* is passed over.
RECURSIVE TryDirs(_, _, _, _)
TryDirs(plat, dirs, ver, query) ==
    IF dirs = << >> THEN [result |-> Return(NoPath), probed |-> << >>]
    ELSE LET qmake == QmakePath(plat, Head(dirs))
         IN  IF Accepts(query[qmake], ver)
             THEN [result |-> Return(qmake), probed |-> <<qmake>>]
             ELSE LET later == TryDirs(plat, Tail(dirs), ver, query)
                  IN  [result |-> later.result,
                       probed |-> <<qmake>> \o later.probed]

\* qt.py:145-150: the override for this version, where one is set. Indexing
\* the empty version string raises IndexError.
Override(plat, env, ver, name, digit) ==
    IF name \notin env THEN NoResult
    ELSE IF ver = << >> THEN Raise("IndexError")
    ELSE IF ver[1] = digit THEN Return(QmakePath(plat, EnvValue(name)))
    ELSE NoResult

\* qt.py:136-176
get_qmake_path(plat, env, ver, brew, query) ==
    LET qt5 == Override(plat, env, ver, "QT5DIR", "5")
        qt4 == Override(plat, env, ver, "QT4DIR", "4")
    IN  IF qt5.kind # "none" THEN [result |-> qt5, probed |-> << >>]
        ELSE IF qt4.kind # "none" THEN [result |-> qt4, probed |-> << >>]
        ELSE TryDirs(plat, CandidateDirs(brew), ver, query)

\* The inputs of the lookup.
Versions == { << >>, <<"5">>, <<"4">>, <<"5",".","9">> }
BrewPrefix(formula) ==
    IF formula = "qt" THEN <<"/","b","r","e","w","/","q","t">>  \* /brew/qt
    ELSE <<"/","b","r","e","w","/","q","t","5">>                    \* /brew/qt5
QueryOutcomes ==
    {Failed(e) : e \in SubprocessErrors}
    \cup {Printed(<<"5",".","9",".","1","\n">>),
          Printed(<<"\t","5",".","9",".","1","\r","\n">>),
          Printed(<<"4",".","8",".","7","\n">>)}
QmakeCandidates(plat) ==
    {QmakePath(plat, << >>), QmakePath(plat, BrewPrefix("qt")),
     QmakePath(plat, BrewPrefix("qt5"))}

\* A call of get_qmake_path(version).
InitQmake ==
    /\ pc = "call"
    /\ platform \in Platforms
    /\ environ \in SUBSET {"QT5DIR", "QT4DIR"}
    /\ version \in Versions
    /\ homebrew \in [{"qt", "qt5"} -> {NoPath, BrewPrefix("qt"), BrewPrefix("qt5")}]
    /\ \A f \in {"qt", "qt5"} : homebrew[f] \in {NoPath, BrewPrefix(f)}
    /\ qmake_query \in [QmakeCandidates(platform) -> QueryOutcomes]
    /\ WalkIdle
    /\ imp = << >>
    /\ lib_name = << >>
    /\ FsIdle
    /\ LocIdle
    /\ probed = << >>
    /\ result = NoResult

CallGetQmakePath ==
    /\ pc = "call"
    /\ LET out == get_qmake_path(platform, environ, version, homebrew, qmake_query)
       IN  /\ result' = out.result
           /\ probed' = probed \o out.probed
    /\ pc' = "qmake_returned"
    /\ UNCHANGED <<platform, walkVars, fsVars, qmakeVars, locVars>>

NextQmake == CallGetQmakePath

SpecQmake == InitQmake /\ [][NextQmake]_vars

\* ----------------------------------------------------------- qt_menu_nib_dir
\* qt.py:118-119: the locations checked, in order.
NibLocations(plat, path, prefix) ==
    LET Resources == <<"R","e","s","o","u","r","c","e","s">>
    IN  << Join(plat, path, Resources),
           Join(plat, Join(plat, path, <<"Q","t","G","u","i",".","f","r","a","m","e","w","o","r","k">>),
                Resources),
           Join(plat, Join(plat, Join(plat, prefix, <<"p","y","t","h","o","n",".","a","p","p">>),
                           <<"C","o","n","t","e","n","t","s">>),
                Resources) >>

\* qt.py:123: os.path.join(location, 'qt_menu.nib')
NibPath(plat, location) ==
    Join(plat, location, <<"q","t","_","m","e","n","u",".","n","i","b">>)
NibPaths(plat, path, prefix) ==
    [i \in 1..3 |-> NibPath(plat, NibLocations(plat, path, prefix)[i])]

\* qt.py:121-133: the first location that holds qt_menu.nib, or a raise.
FoundNib(found) ==
    IF found = << >> THEN Raise("Cannot find qt_menu.nib")
    ELSE Return(Head(found))

\* qt.py:100-133
qt_menu_nib_dir(plat, ns, path, prefix, ex) ==
    IF ns \notin SupportedNamespaces THEN Raise("Invalid namespace")
    ELSE FoundNib(SelectSeq(NibPaths(plat, path, prefix), LAMBDA p : p \in ex))

\* The os.path.exists checks qt_menu_nib_dir makes: up to the first hit.
RECURSIVE ChecksUntilHit(_, _)
ChecksUntilHit(paths, ex) ==
    IF paths = << >> THEN << >>
    ELSE IF Head(paths) \in ex THEN <<Head(paths)>>
    ELSE <<Head(paths)>> \o ChecksUntilHit(Tail(paths), ex)
NibProbes(plat, ns, path, prefix, ex) ==
    IF ns \notin SupportedNamespaces THEN << >>
    ELSE ChecksUntilHit(NibPaths(plat, path, prefix), ex)

\* --------------------------------------------------------------- qt5_qml_dir
Qt5QmlNamespaces == {"PyQt5", "PySide2"}

\* PyQt5.__path__[0], and qt.py:185: os.path.join(<it>, 'Qt', 'qml').
PyQt5Path == <<"/","s","p","/","P","y","Q","t","5">>
PyQt5QmlDir(plat) ==
    Join(plat, Join(plat, PyQt5Path, <<"Q","t">>), <<"q","m","l">>)

\* os.path.normpath for a path without '.' or '..' components and without
\* repeated separators: '' becomes '.', on Windows '/' becomes '\', and
\* trailing separators are dropped, but not the one that is the root ('/',
\* or on Windows the one that follows the drive).
RECURSIVE DropTrailingSeps(_, _)
DropTrailingSeps(plat, p) ==
    IF Len(p) > DriveLen(plat, p) + 1 /\ p[Len(p)] \in Seps(plat)
    THEN DropTrailingSeps(plat, SubSeq(p, 1, Len(p) - 1))
    ELSE p
NormpathMutant(plat, p) == p
Normpath(plat, p) ==
    IF p = << >> THEN <<".">>
    ELSE DropTrailingSeps(plat,
            [i \in 1..Len(p) |->
                IF plat = "win" /\ p[i] = "/" THEN "\\" ELSE p[i]])

\* str.strip() (qt.py:195): besides the ASCII whitespace of bytes.strip() it
\* removes the four ASCII separator characters FS, GS, RS and US.
StrWhitespace == Whitespace \cup {"", "", "", ""}
StripStr(s) == StripChars(s, StrWhitespace)

\* qt.py:189-204: the directory qmake names; compat.exec_command raises
\* OSError when the qmake it is given cannot be run.
QmlDirFromQmake(plat, qmake, qml) ==
    IF qmake = NoPath THEN Return(Normpath(plat, << >>))
    ELSE IF qml.error # None THEN Raise(qml.error)
    ELSE Return(Normpath(plat, StripStr(qml.output)))

\* qt.py:179-204; the result and the qmake candidates probed on the way.
qt5_qml_dir(plat, ns, pyqt_isdir, env, brew, query, qml) ==
    IF ns \notin Qt5QmlNamespaces
    THEN [result |-> Raise("Invalid namespace"), probed |-> << >>]
    ELSE IF ns = "PyQt5" /\ pyqt_isdir
    THEN [result |-> Return(PyQt5QmlDir(plat)), probed |-> << >>]
    ELSE LET found == get_qmake_path(plat, env, <<"5">>, brew, query)
         IN  [result |-> QmlDirFromQmake(plat, found.result.value, qml),
              probed |-> found.probed]

\* ------------------------------------------------- the discovery probes alone
\* What ``qmake -query QT_INSTALL_QML`` can come to.
QmlDirPrinted == <<"/","q","t","/","q","m","l","\n">>
QmlOutcomes ==
    {Failed("OSError"), Printed(<< >>), Printed(<<"\n">>), Printed(QmlDirPrinted),
     Printed(<<"/","q","t","/","q","m","l","/","\r","\n">>),
     Printed(<<"c",":","/","\n">>)}

\* Inputs of one probe while another is the one under study.
DirDefault ==
    /\ libraryPaths = <<QtPlugins>>
    /\ isdir = {QtPlugins}
NibDefault ==
    /\ libraries_path = <<"/","q","t","/","l","i","b">>  \* /qt/lib
    /\ exec_prefix = <<"/","c","o","n","d","a">>  \* /conda
    /\ exists = {}
QmakeDefault ==
    /\ environ = {}
    /\ version = <<"5">>
    /\ homebrew = [f \in {"qt", "qt5"} |-> NoPath]
    /\ qmake_query = [q \in QmakeCandidates(platform) |-> Failed("OSError")]
QmlDefault ==
    /\ pyqt5_qml_isdir = FALSE
    /\ qml_query = Printed(<< >>)
    /\ qml_exists = FALSE

\* The inputs of a qmake lookup.
QmakeInputs ==
    /\ environ \in SUBSET {"QT5DIR", "QT4DIR"}
    /\ homebrew \in [{"qt", "qt5"} -> {NoPath, BrewPrefix("qt"), BrewPrefix("qt5")}]
    /\ \A f \in {"qt", "qt5"} : homebrew[f] \in {NoPath, BrewPrefix(f)}
    /\ qmake_query \in
          [QmakeCandidates(platform) ->
              {Failed("OSError"), Printed(<<"5",".","9",".","1","\n">>),
               Printed(<<"4",".","8",".","7","\n">>)}]

\* A call of one of the four discovery probes.
InitDiscover ==
    /\ pc = "call"
    /\ platform \in Platforms
    /\ namespace \in SupportedNamespaces \cup {"PyQt6"}
    /\ plugin_type = None
    /\ dir_files = << >>
    /\ WalkIdle
    /\ imp = << >>
    /\ lib_name = << >>
    /\ probed = << >>
    /\ result = NoResult
    /\ \/ /\ libraryPaths \in PathLists(MaxPaths)
          /\ isdir \in SUBSET PluginDirs
          /\ NibDefault /\ QmakeDefault /\ QmlDefault
       \/ /\ libraries_path \in {<<"/","q","t","/","l","i","b">>, <<"/","q","t","/","l","i","b","/">>, << >>}
          /\ exec_prefix \in {<<"/","c","o","n","d","a">>, <<"/">>}
          /\ exists \in SUBSET Range(NibPaths(platform, libraries_path, exec_prefix))
          /\ DirDefault /\ QmakeDefault /\ QmlDefault
       \/ /\ QmakeInputs
          /\ version \in Versions
          /\ DirDefault /\ NibDefault /\ QmlDefault
       \/ /\ QmakeInputs
          /\ version = <<"5">>
          /\ pyqt5_qml_isdir \in BOOLEAN
          /\ qml_query \in QmlOutcomes
          /\ qml_exists \in
                IF qml_query.error = None /\ StripStr(qml_query.output) # << >>
                THEN BOOLEAN ELSE {FALSE}
          /\ DirDefault /\ NibDefault

\* A call of qt_menu_nib_dir(namespace) (qt.py:100-133).
CallQtMenuNibDir ==
    /\ pc = "call"
    /\ result' = qt_menu_nib_dir(platform, namespace, libraries_path,
                                 exec_prefix, exists)
    /\ probed' = probed \o NibProbes(platform, namespace, libraries_path,
                                     exec_prefix, exists)
    /\ pc' = "nib_returned"
    /\ UNCHANGED <<platform, walkVars, fsVars, qmakeVars, locVars>>

\* A call of qt5_qml_dir(namespace) (qt.py:179-204).
CallQt5QmlDir ==
    /\ pc = "call"
    /\ LET out == qt5_qml_dir(platform, namespace, pyqt5_qml_isdir, environ,
                              homebrew, qmake_query, qml_query)
       IN  /\ result' = out.result
           /\ probed' = probed \o out.probed
    /\ pc' = "qml_returned"
    /\ UNCHANGED <<platform, walkVars, fsVars, qmakeVars, locVars>>

NextDiscover ==
    \/ CallQtPluginsDir
    \/ CallQtMenuNibDir
    \/ CallGetQmakePath
    \/ CallQt5QmlDir

SpecDiscover == InitDiscover /\ [][NextDiscover]_vars

\* The walk on the Linux installation under weak fairness: the interpreter
\* keeps executing the loop, and then the rest of the function, while it can.
InitFair == InitWalk /\ platform = "linux" /\ table = qt_dynamic_dependencies_dict
FairSpec == InitFair /\ [][NextWalk]_vars /\ WF_vars(NextWalk)

\* ------------------------------------------------------------------ claims
\* The key a work-set element is looked up under.
KeyOf(i) == NormalizeLibName(platform, Full(platform, getfullnameof, i))
\* The element is a library of the table.
InTable(i) == KeyOf(i) \in Keys(table)
\* The names the element's library file imports.
DirectImports(i) == ImportsOf(getImports, Full(platform, getfullnameof, i))

\* The elements reached from a set by following table libraries only.
RECURSIVE ReachableFrom(_)
ReachableFrom(S) ==
    LET next == S \cup UNION {DirectImports(i) : i \in {j \in S : InTable(j)}}
    IN  IF next = S THEN S ELSE ReachableFrom(next)

\* The table libraries reachable from the module's direct imports along
\* table libraries, and their table entries.
ReachedLibs == {i \in ReachableFrom(module_imports) : InTable(i)}
ReachedRows == {Lookup(table, KeyOf(i)) : i \in ReachedLibs}

\* C1: the walk of add_qt5_dependencies terminates for every finite import
\* graph, cycles and diamonds included, whatever element pop() removes: the
\* work-set eventually becomes empty and the function goes on to return.
C1_WalkTerminates == <>(pc = "done")

\* C2: when the walk finishes, the three accumulated sets are the unions of
\* the table entries of exactly the libraries reachable from the module's
\* direct imports along table libraries, whatever the order of the pops.
C2_WalkResult ==
    imports = {} =>
        /\ hiddenimports = {r.hiddenimports : r \in ReachedRows} \ {None}
        /\ plugins = UNION {Range(r.plugins) : r \in ReachedRows}
        /\ translations_base = {r.translations_base : r \in ReachedRows} \ {None}

\* A finished walk that followed a library only a table library imports and
\* accumulated a plugin category.
C2_Witness ==
    /\ pc = "done"
    /\ Cardinality(ReachedLibs) >= 2
    /\ ReachedLibs \ module_imports # {}
    /\ plugins # {}

\* A step of the loop that pops a library whose name is no key of the table.
DropStep == pc = "walk" /\ pc' = "walk" /\ imports # {} /\ ~Follows(table, lib_name')

\* C3: a library whose normalised name is no key of the table is dropped
\* without effect: getImports is never called on it, nothing is added to the
\* work-set or to the accumulated sets, no error is raised; and a table
\* library that only non-table libraries import is never expanded.
C3_NonTableDropped ==
    /\ [][DropStep =>
            /\ \E i \in imports :
                  /\ imp' = Full(platform, getfullnameof, i)
                  /\ imports' = imports \ {i}
            /\ UNCHANGED <<hiddenimports, plugins, translations_base,
                           expanded, result>>]_vars
    /\ [](\A p \in expanded : NormalizeLibName(platform, p) \in Keys(table))
    /\ [](\A n \in DOMAIN getfullnameof :
            (/\ InTable(n)
             /\ n \notin module_imports
             /\ \A m \in DOMAIN getfullnameof :
                    n \in DirectImports(m) => ~InTable(m))
            => Full(platform, getfullnameof, n) \notin expanded)

\* A finished walk that popped a non-table library importing a table library
\* which nothing else imports.
C3_Witness ==
    /\ pc = "done"
    /\ result.kind = "return"
    /\ \E m \in module_imports :
          /\ ~InTable(m)
          /\ \E n \in DirectImports(m) :
                /\ InTable(n)
                /\ n \notin module_imports
                /\ Full(platform, getfullnameof, n) \notin expanded

\* <dir>/lib<Name>.so.<N>
VersionedSo(dir, stem, digit) ==
    dir \o <<"l","i","b">> \o stem \o <<".","s","o",".">> \o <<digit>>
C4Dirs == { <<"/","o","p","t","/">>, <<"/","u","s","r","/","l","i","b","/">> }
WalkStems ==
    { <<"x">>, <<"y">>, <<"Q","t","5","C","o","r","e">>,
      <<"Q","t","5","N","e","t","w","o","r","k">>, <<"Q","t","5","S","q","l">> }
C4Stems ==
    WalkStems \cup
    { << >>, <<".">>, <<"l","i","b">>, <<"l","i","b","x">>, <<".","s","o">>,
      <<"a",".","b">>, <<"X">>, <<"Q","t">> }
C4Digits == {"1", "5"}

\* On Linux every <dir>/lib<Name>.so.<N> normalises to lowercase(<Name>).
C4_LookupKey ==
    \A d \in C4Dirs, s \in C4Stems, v \in C4Digits :
        NormalizeLibName("linux", VersionedSo(d, s, v)) = Lower(s)

\* C4: on Linux, with the table {"x": ("pkg.X", "base_x", "plugA")} and a
\* module whose only import is libx.so.1, which imports nothing, the walk
\* ends with hidden imports {"pkg.X"}, plugins {"plugA"} and translation
\* bases {"base_x"}; a path <dir>/lib<Name>.so.<N> is looked up under
\* lowercase(<Name>).
C4_WorkedExample ==
    /\ (/\ platform = "linux"
        /\ table = TestTable
        /\ module_imports = {LibX}
        /\ getImports[LibX] = {}
        /\ imports = {})
       => /\ hiddenimports = {"pkg.X"}
          /\ plugins = {"plugA"}
          /\ translations_base = {"base_x"}
    /\ C4_LookupKey
    /\ \A d \in C4Dirs, s \in WalkStems, v \in C4Digits :
          (platform = "linux" /\ imp = VersionedSo(d, s, v))
          => /\ lib_name = Lower(s)
             /\ (imp \in expanded <=> Lower(s) \in Keys(table))

\* The worked example has run to its end.
C4_Witness ==
    /\ pc = "done"
    /\ platform = "linux"
    /\ table = TestTable
    /\ module_imports = {LibX}
    /\ getImports[LibX] = {}
    /\ imp = LibX
    /\ lib_name = <<"x">>
    /\ hiddenimports = {"pkg.X"}

\* C5: the normalisation is idempotent on every name and platform:
\* normalising a normalised name returns it unchanged.
C5_Idempotent ==
    pc = "normalized" => NormalizeLibName(platform, lib_name) = lib_name

\* A normalised name with nothing left to strip: no dot, no leading "lib"
\* and, on Windows, no drive colon.
NothingToStrip(plat, n) ==
    /\ \A k \in 1..Len(n) : n[k] # "."
    /\ ~StartsWith(n, <<"l","i","b">>)
    /\ ~(plat = "win" /\ Len(n) >= 2 /\ n[2] = ":")

\* C5 as amended: normalising a normalised name returns it unchanged when the
\* normalised name holds no dot, does not begin with "lib" and, on Windows,
\* has no drive colon as its second character. Otherwise a second
\* application may strip again: on Linux liblibx.so becomes libx and then x,
\* and x.so.5.9 becomes x.so.5 and then x.
C5_IdempotentWhenStripped ==
    /\ (pc = "normalized" /\ NothingToStrip(platform, lib_name))
       => NormalizeLibName(platform, lib_name) = lib_name
    /\ NormalizeLibName("linux", <<"l","i","b","l","i","b","x",".","s","o">>)
          = <<"l","i","b","x">>
    /\ NormalizeLibName("linux", <<"l","i","b","x">>) = <<"x">>
    /\ NormalizeLibName("linux", <<"x",".","s","o",".","5",".","9">>)
          = <<"x",".","s","o",".","5">>
    /\ NormalizeLibName("linux", <<"x",".","s","o",".","5">>) = <<"x">>
    /\ NormalizeLibName("linux", <<"x">>) = <<"x">>

\* A name the normalisation changed into one with nothing left to strip.
C5_Witness ==
    /\ pc = "normalized"
    /\ NothingToStrip(platform, lib_name)
    /\ lib_name # << >>
    /\ StartsWith(imp, <<"l","i","b">>)
    /\ Len(lib_name) + 6 <= Len(imp)

\* C6: on Linux lib<Name>.so followed by one or more numeric version
\* components normalises to lowercase(<Name>), the key lib<Name>.so
\* normalises to.
C6_MultiDotVersions ==
    \A d \in SoDirs, s \in SoStems, k \in 0..MaxVersion :
        (pc = "normalized" /\ platform = "linux" /\ imp = SoFile(d, s, k))
        => /\ lib_name = Lower(s)
           /\ lib_name = NormalizeLibName("linux", SoFile(d, s, 0))

\* ---- the plugin probes
\* The reported paths that are directories.
ValidDirs == {d \in Range(libraryPaths) : d \in isdir}
\* The position of a path in the reported list.
PositionOf(d) == CHOOSE i \in 1..Len(libraryPaths) : libraryPaths[i] = d

\* C7: for a supported namespace qt_plugins_dir returns a non-empty list of
\* existing directories taken from the reported paths in reported order, or
\* raises; it never returns an empty list. For another namespace it raises
\* before probing anything.
C7_PluginsDir ==
    pc = "dir_returned" =>
        IF namespace \in {"PyQt4", "PyQt5", "PySide", "PySide2"}
        THEN \/ result.kind = "raise"
             \/ /\ result.kind = "return"
                /\ result.value # << >>
                /\ \A i \in 1..Len(result.value) : result.value[i] \in ValidDirs
                /\ \A i, j \in 1..Len(result.value) :
                      i < j => PositionOf(result.value[i]) < PositionOf(result.value[j])
        ELSE result.kind = "raise" /\ probed = << >>

\* qt_plugins_dir returned after leaving out a reported path.
C7_Witness ==
    /\ pc = "dir_returned"
    /\ result.kind = "return"
    /\ Len(result.value) = 1
    /\ Len(libraryPaths) = 2
    /\ libraryPaths[2] = result.value[1]

\* The library files in the plugin_type subdirectories of the discovered
\* directories, and whether one is a Windows debug copy.
FoundFiles ==
    {[dir |-> d, sub |-> plugin_type, name |-> n] :
        d \in {v \in ValidDirs : <<v, plugin_type>> \in DOMAIN dir_files},
        n \in UNION {Range(dir_files[s]) : s \in DOMAIN dir_files}}
    \cap
    UNION {{[dir |-> s[1], sub |-> s[2], name |-> n] : n \in Range(dir_files[s])} :
              s \in DOMAIN dir_files}
IsDebugCopy(f) ==
    /\ platform = "win"
    /\ \/ namespace \in {"PyQt5", "PySide2"} /\ EndsWith(f.name, <<"d",".","d","l","l">>)
       \/ namespace \in {"PyQt4", "PySide"} /\ EndsWith(f.name, <<"d","4",".","d","l","l">>)

\* C8: qt_plugins_binaries returns exactly one (file, destination) pair for
\* each library file found, except the Windows debug copies; on other
\* platforms no file is removed; of a.dll and ad.dll for PyQt5 on Windows
\* only a.dll appears.
C8_PluginsBinaries ==
    (pc = "binaries_returned" /\ result.kind = "return") =>
        LET b == result.value
        IN  /\ \A f \in FoundFiles :
                  Cardinality({i \in 1..Len(b) : b[i][1] = f})
                      = IF IsDebugCopy(f) THEN 0 ELSE 1
            /\ \A i \in 1..Len(b) : Len(b[i]) = 2 /\ b[i][1] \in FoundFiles
            /\ platform # "win" => Len(b) = Cardinality(FoundFiles)
            /\ (/\ platform = "win"
                /\ namespace = "PyQt5"
                /\ FoundFiles = {[dir |-> QtPlugins, sub |-> "bearer", name |-> n] :
                                    n \in {FileA, FileAd}})
               => [i \in 1..Len(b) |-> b[i][1].name] = <<FileA>>

\* Of a.dll and ad.dll only a.dll was returned for PyQt5 on Windows.
C8_Witness ==
    /\ pc = "binaries_returned"
    /\ platform = "win"
    /\ namespace = "PyQt5"
    /\ FoundFiles = {[dir |-> QtPlugins, sub |-> "bearer", name |-> n] :
                        n \in {FileA, FileAd}}
    /\ result.kind = "return"
    /\ Len(result.value) = 1
    /\ result.value[1][1].name = FileA

\* No discovered directory holds a subdirectory for the category.
NoSubdir(ptype) == \A d \in ValidDirs : <<d, ptype>> \notin DOMAIN dir_files

\* C9: when a valid plugin directory is discovered but none holds a
\* subdirectory for the category, qt_plugins_binaries returns an empty list
\* and raises nothing; so add_qt5_dependencies still returns its triple when
\* an accumulated plugin category has no directory on disk.
C9_MissingSubdir ==
    /\ (/\ pc = "binaries_returned"
        /\ namespace \in SupportedNamespaces
        /\ ValidDirs # {}
        /\ NoSubdir(plugin_type))
       => result = Return(<< >>)
    /\ (pc = "done" /\ ValidDirs # {})
       => /\ result.kind = "return"
          /\ \A p \in plugins : NoSubdir(p) =>
                \A i \in 1..Len(result.value.binaries) :
                    result.value.binaries[i][1].sub # p

\* add_qt5_dependencies returned its triple although an accumulated plugin
\* category has no directory.
C9_Witness ==
    /\ pc = "done"
    /\ ValidDirs # {}
    /\ \E p \in plugins : NoSubdir(p)
    /\ result.kind = "return"
    /\ result.value.hiddenimports # << >>

\* ---- get_qmake_path
\* The path was invoked and reported a version starting with the requested one.
Validated(q) ==
    /\ q \in Range(probed)
    /\ q \in DOMAIN qmake_query
    /\ qmake_query[q].error = None
    /\ StartsWith(Strip(qmake_query[q].output), version)

\* C10: every non-None path get_qmake_path returns has been validated by
\* invoking it and checking the reported QT_VERSION against the requested
\* prefix, whichever of the three sources supplied it.
C10_EveryPathValidated ==
    (pc = "qmake_returned" /\ result.kind = "return" /\ result.value # NoPath)
    => Validated(result.value)

\* The override variable that applies to the requested version, if any.
OverrideFor ==
    IF version = << >> THEN {}
    ELSE IF "QT5DIR" \in environ /\ version[1] = "5" THEN {"QT5DIR"}
    ELSE IF "QT4DIR" \in environ /\ version[1] = "4" THEN {"QT4DIR"}
    ELSE {}
\* The candidates after the override: the default entry, then the Homebrew
\* prefixes of qt and qt5 that exist.
Candidates ==
    <<QmakePath(platform, << >>)>>
    \o (IF homebrew["qt"] # NoPath
        THEN <<QmakePath(platform, homebrew["qt"])>> ELSE << >>)
    \o (IF homebrew["qt5"] # NoPath
        THEN <<QmakePath(platform, homebrew["qt5"])>> ELSE << >>)

\* C10 as amended: the override is checked first and its path is returned
\* without being invoked; otherwise the default entry and then the Homebrew
\* prefixes are probed in that order, and every non-None path returned from
\* them has been validated.
C10_SearchedPathsValidated ==
    pc = "qmake_returned" =>
        /\ \A name \in OverrideFor :
              /\ result.kind = "return"
              /\ result.value = QmakePath(platform, EnvValue(name))
              /\ probed = << >>
        /\ (OverrideFor = {} /\ result.kind = "return") =>
              /\ probed = SubSeq(Candidates, 1, Len(probed))
              /\ \A i \in 1..(Len(probed) - 1) : ~Validated(probed[i])
              /\ IF result.value # NoPath
                 THEN result.value = probed[Len(probed)] /\ Validated(result.value)
                 ELSE probed = Candidates /\ \A i \in 1..Len(probed) : ~Validated(probed[i])

\* The default entry and the first Homebrew prefix were passed over and the
\* second Homebrew prefix was returned.
C10_Witness ==
    /\ pc = "qmake_returned"
    /\ environ = {}
    /\ version = <<"5">>
    /\ platform = "darwin"
    /\ Len(probed) = 3
    /\ result.kind = "return"
    /\ result.value = <<"/","b","r","e","w","/","q","t","5","/","b","i","n","/","q","m","a","k","e">>

\* ---- the discovery probes
\* No location checked by qt_menu_nib_dir holds qt_menu.nib.
NoNib ==
    \A p \in Range(NibPaths(platform, libraries_path, exec_prefix)) :
        p \notin exists
\* The override variable that applies to a requested version, if any.
OverrideVar(ver) ==
    IF ver = << >> THEN {}
    ELSE IF "QT5DIR" \in environ /\ ver[1] = "5" THEN {"QT5DIR"}
    ELSE IF "QT4DIR" \in environ /\ ver[1] = "4" THEN {"QT4DIR"}
    ELSE {}
\* The qmake at this path runs and reports a version beginning with ver.
Matches(q, ver) ==
    /\ qmake_query[q].error = None
    /\ StartsWith(Strip(qmake_query[q].output), ver)
\* No override applies and no candidate is a qmake of the requested version.
NoQmake(ver) ==
    /\ OverrideVar(ver) = {}
    /\ \A i \in 1..Len(Candidates) : ~Matches(Candidates[i], ver)
\* qt5_qml_dir is asked for a namespace it supports and the bundled
\* <PyQt5>/Qt/qml directory is not there to be returned.
QmlFromQmake ==
    /\ namespace \in {"PyQt5", "PySide2"}
    /\ ~(namespace = "PyQt5" /\ pyqt5_qml_isdir)
\* qt5_qml_dir finds no QML directory: no qmake, or a qmake that names no
\* directory or one that does not exist.
NoQmlDir ==
    /\ QmlFromQmake
    /\ \/ NoQmake(<<"5">>)
       \/ /\ qml_query.error = None
          /\ StripStr(qml_query.output) = << >> \/ ~qml_exists

\* C11: every discovery probe that finds nothing raises rather than returning
\* a placeholder: qt_plugins_dir with no existing directory, qt_menu_nib_dir
\* with no qt_menu.nib, get_qmake_path with no matching qmake and qt5_qml_dir
\* with no QML directory never return None, '' or '.'.
C11_NothingFoundRaises ==
    /\ (pc = "dir_returned" /\ ValidDirs = {}) => result.kind = "raise"
    /\ (pc = "nib_returned" /\ NoNib) => result.kind = "raise"
    /\ (pc = "qmake_returned" /\ NoQmake(version)) => result.kind = "raise"
    /\ (pc = "qml_returned" /\ NoQmlDir) => result.kind = "raise"

\* C11 as amended: qt_plugins_dir and qt_menu_nib_dir raise when they find
\* nothing; get_qmake_path returns None when no override applies and no
\* candidate matches (unless indexing an empty version with an override
\* variable set raised first); qt5_qml_dir returns '.' when there is no qmake
\* or qmake names no directory, and returns the named path when that
\* directory does not exist.
C11_RaisesOrPlaceholder ==
    /\ (pc = "dir_returned" /\ ValidDirs = {}) => result.kind = "raise"
    /\ (pc = "nib_returned" /\ NoNib) => result.kind = "raise"
    /\ (pc = "qmake_returned" /\ NoQmake(version)) =>
          IF version = << >> /\ environ # {}
          THEN result.kind = "raise" /\ result.value = "IndexError"
          ELSE result.kind = "return" /\ result.value = NoPath
    /\ (pc = "qml_returned" /\ NoQmlDir) =>
          IF NoQmake(<<"5">>) \/ StripStr(qml_query.output) = << >>
          THEN result.kind = "return" /\ result.value = <<".">>
          ELSE /\ result.kind = "return"
               /\ result.value = Normpath(platform, StripStr(qml_query.output))
               /\ qml_query = Printed(QmlDirPrinted) =>
                     result.value = <<SepChar(platform)>> \o <<"q","t">>
                                       \o <<SepChar(platform)>> \o <<"q","m","l">>

\* qt5_qml_dir returned '.' after every qmake candidate was tried in vain.
C11_Witness ==
    /\ pc = "qml_returned"
    /\ NoQmake(<<"5">>)
    /\ QmlFromQmake
    /\ Len(probed) = 3
    /\ result.kind = "return"
    /\ result.value = <<".">>

\* The i-th qmake invoked could not be run or exited non-zero.
QueryFailed(i) == qmake_query[probed[i]].error \in SubprocessErrors

\* C12: a subprocess failure while querying qmake (OSError or
\* CalledProcessError) propagates as a raised error to the caller of
\* get_qmake_path: no further candidate is tried and the call does not
\* return normally.
C12_SubprocessFailurePropagates ==
    pc = "qmake_returned" =>
        \A i \in 1..Len(probed) :
            QueryFailed(i) => result.kind = "raise" /\ i = Len(probed)

\* C12 as amended: a subprocess failure is caught and the candidate passed
\* over: the next candidate directory, if any, is tried, the call returns
\* normally (None when the last candidate failed), and get_qmake_path never
\* raises OSError or CalledProcessError.
C12_SubprocessFailureSkipped ==
    pc = "qmake_returned" =>
        /\ result.kind = "raise" => result.value \notin SubprocessErrors
        /\ \A i \in 1..Len(probed) :
              QueryFailed(i) =>
                 /\ result.kind = "return"
                 /\ i < Len(Candidates) =>
                       Len(probed) > i /\ probed[i + 1] = Candidates[i + 1]
                 /\ i = Len(probed) => result.value = NoPath

\* Two candidates failed, one of each kind, and the third was returned.
C12_Witness ==
    /\ pc = "qmake_returned"
    /\ Len(probed) = 3
    /\ qmake_query[probed[1]].error = "OSError"
    /\ qmake_query[probed[2]].error = "CalledProcessError"
    /\ result.kind = "return"
    /\ result.value = probed[3]

\* C13: every key of _qt_dynamic_dependencies_dict is lowercase, so every
\* entry can be matched by a normalised (lowercased) library name: a library
\* whose normalised name is a key but for letter case finds that key.
C13_KeysLowercase ==
    /\ \A k \in Keys(table) : k = Lower(k)
    /\ pc = "normalized" =>
          \A k \in Keys(table) : Lower(k) = lib_name => lib_name \in Keys(table)

\* /qt/QtCore.framework/QtCore, the framework binary of QtCore on macOS.
QtCoreFramework ==
    <<"/","q","t","/","Q","t","C","o","r","e",".","f","r","a","m","e","w","o","r","k",
      "/","Q","t","C","o","r","e">>

\* C14: on macOS the rename rule takes effect: a library whose base name
\* begins with Qt, such as the framework binary QtCore, gets the Qt5 prefix,
\* so its normalised name is the key qt5core and the walk follows it.
C14_MacRename ==
    /\ (platform = "darwin" /\ imp = QtCoreFramework) =>
          lib_name = <<"q","t","5","c","o","r","e">>
    /\ (pc = "done" /\ platform = "darwin" /\ QtCoreFramework \in module_imports) =>
          QtCoreFramework \in expanded /\ "PyQt5.QtCore" \in hiddenimports

\* The glob entry of a translation base (qt.py:434).
GlobEntry(tb) ==
    << <<translations_path, <<tb, "_*.qm">> >>, <<"PyQt5", "Qt", "translations">> >>
\* The library files of a plugin category that the manifest is to carry:
\* those of its subdirectory in each discovered directory, without the
\* Windows debug copies of PyQt5.
CategoryFiles(p) ==
    {f \in UNION {{[dir |-> s[1], sub |-> s[2], name |-> n] :
                      n \in Range(dir_files[s])} :
                  s \in {t \in DOMAIN dir_files : t[1] \in ValidDirs /\ t[2] = p}} :
        ~(platform = "win" /\ EndsWith(f.name, <<"d",".","d","l","l">>))}

\* C15: in the triple add_qt5_dependencies returns, after any walk, one that
\* expands a library several times included, the hiddenimports list holds no
\* duplicate and no None, datas holds exactly one glob entry
\* <translations_path>/<base>_*.qm -> PyQt5/Qt/translations per accumulated
\* translation base, and each plugin category is scanned exactly once; the
\* static table is left unchanged.
C15_ReturnedTriple ==
    /\ []((pc = "done" /\ result.kind = "return") =>
            LET hi == result.value.hiddenimports
                datas == result.value.datas
                binaries == result.value.binaries
            IN  /\ \A i, j \in 1..Len(hi) : hi[i] = hi[j] => i = j
                /\ \A i \in 1..Len(hi) : hi[i] # None
                /\ Range(hi) = hiddenimports
                /\ Len(datas) = Cardinality(translations_base)
                /\ Range(datas) = {GlobEntry(tb) : tb \in translations_base}
                /\ None \notin translations_base
                /\ Len(probed) = Cardinality(plugins)
                /\ \A i \in 1..Len(binaries) : binaries[i][1].sub \in plugins
                /\ \A p \in plugins : \A f \in CategoryFiles(p) :
                      Cardinality({i \in 1..Len(binaries) : binaries[i][1] = f}) = 1)
    /\ [][table' = table]_vars

\* A finished walk over a diamond: a table library that two expanded table
\* libraries import, with a hidden import, a translation base and plugin
\* files accumulated.
C15_Witness ==
    /\ pc = "done"
    /\ platform = "linux"
    /\ \E d \in expanded :
          Cardinality({a \in expanded : d \in DirectImports(a)}) >= 2
    /\ result.kind = "return"
    /\ Len(result.value.hiddenimports) >= 2
    /\ Len(result.value.datas) >= 1
    /\ Len(result.value.binaries) >= 1
    /\ \E p \in plugins : CategoryFiles(p) # {}
====
